---- MODULE Spec2Model ----
(***************************************************************************)
(* LDAPAuthenticator (src/ldapauthenticator/ldapauthenticator.py): one     *)
(* login attempt, authenticate followed by check_allowed, against a        *)
(* directory whose answers are chosen nondeterministically.                *)
(*                                                                         *)
(* Strings that the code inspects, escapes or interpolates are sequences   *)
(* of tokens.  A token of a username or password is one character; the     *)
(* literal parts of the configured templates are multi-character tokens    *)
(* and the placeholders of str.format are the tokens "{username}",         *)
(* "{login}", "{userdn}", "{uid}", ...                                     *)
(***************************************************************************)
EXTENDS Integers, Sequences, FiniteSets, TLC

\* ---------------------------------------------------------------- bounds
MaxGroups == 2     \* longest allowed_groups list configured
MaxEntries == 2    \* most entries the directory returns for one search
MaxCalls == 2      \* most check_allowed calls the host makes for one identity

\* ------------------------------------------------------------ strings
\* Python's None where a string is expected.
None == <<"None">>

StrUpTo(S, n) == UNION {[1..k -> S] : k \in 0..n}

\* Usernames typed: empty, one the default regex accepts, and two with a
\* character special to LDAP filters, which it refuses
Usernames == {<<>>, <<"a">>, <<"(">>, <<"a", "(">>}

\* Passwords typed: missing, empty, whitespace only, and a real one
Passwords == {None, <<>>, <<" ">>, <<"p">>}

\* valid_username_regex: the default, or r".+" set by an operator who relies
\* on the escaping alone
RegexDefault == "^[a-z][.a-z0-9_-]*$"
RegexAny == ".+"
LowerCase == {"a", "b"}
RestChars == LowerCase \cup {".", "0", "1", "_", "-"}

\* re.match(regex, username) for these two patterns
re_match(regex, username) ==
    IF regex = RegexDefault
    THEN /\ Len(username) >= 1
         /\ username[1] \in LowerCase
         /\ \A k \in 2..Len(username) : username[k] \in RestChars
    ELSE Len(username) >= 1

\* str.strip(): drop leading and trailing whitespace
RECURSIVE lstrip(_)
lstrip(s) == IF s # <<>> /\ Head(s) = " " THEN lstrip(Tail(s)) ELSE s

RECURSIVE rstrip(_)
rstrip(s) ==
    IF s # <<>> /\ s[Len(s)] = " " THEN rstrip(SubSeq(s, 1, Len(s) - 1)) ELSE s

strip(s) == rstrip(lstrip(s))

\* str.format(**args): every placeholder token is replaced by its argument
RECURSIVE format(_, _)
format(tmpl, args) ==
    IF tmpl = <<>> THEN <<>>
    ELSE (IF Head(tmpl) \in DOMAIN args THEN args[Head(tmpl)] ELSE <<Head(tmpl)>>)
         \o format(Tail(tmpl), args)

\* ldap3.utils.conv.escape_filter_chars: \ * ( ) NUL -> \5c \2a \28 \29 \00
EscapeFilterChar(c) ==
    CASE c = "\\" -> <<"\\", "5", "c">>
      [] c = "*"  -> <<"\\", "2", "a">>
      [] c = "("  -> <<"\\", "2", "8">>
      [] c = ")"  -> <<"\\", "2", "9">>
      [] OTHER    -> <<c>>

RECURSIVE escape_filter_chars(_)
escape_filter_chars(text) ==
    IF text = <<>> THEN <<>>
    ELSE EscapeFilterChar(Head(text)) \o escape_filter_chars(Tail(text))

\* ldap3.utils.dn.escape_rdn: backslash before \ , + " < > ; = ; a leading
\* '#' or ' ' and a trailing ' ' are escaped too.
RdnSpecial == {"\\", ",", "+", "\"", "<", ">", ";", "="}

RECURSIVE EscapeRdnChars(_)
EscapeRdnChars(rdn) ==
    IF rdn = <<>> THEN <<>>
    ELSE (IF Head(rdn) \in RdnSpecial THEN <<"\\", Head(rdn)>> ELSE <<Head(rdn)>>)
         \o EscapeRdnChars(Tail(rdn))

escape_rdn(rdn) ==
    LET r1 == EscapeRdnChars(rdn)
        r2 == IF r1 # <<>> /\ r1[1] \in {"#", " "} THEN <<"\\">> \o r1 ELSE r1
        r3 == IF r2 # <<>> /\ r2[Len(r2)] = " "
              THEN SubSeq(r2, 1, Len(r2) - 1) \o <<"\\", " ">> ELSE r2
    IN r3

\* ------------------------------------------------------- configuration
\* bind_dn_template values an operator may configure: a str or a list
Blank == <<>>
TemplateA == <<"uid=", "{username}", ",ou=a">>
TemplateB == <<"uid=", "{username}", ",ou=b">>

Proposals ==
    {[type |-> "str", value |-> t] : t \in {Blank, TemplateA}}
    \cup {[type |-> "list", value |-> l] : l \in {<<TemplateA, TemplateB>>}}

\* [e for e in rv if e]
RECURSIVE DropBlank(_)
DropBlank(rv) ==
    IF rv = <<>> THEN <<>>
    ELSE (IF Head(rv) = Blank THEN <<>> ELSE <<Head(rv)>>) \o DropBlank(Tail(rv))

\* The validator without its filter: a blank str stays as a candidate
validate_bind_dn_template_KeepBlank(proposal) ==
    IF proposal.type = "str" THEN <<proposal.value>> ELSE <<>>

\* _validate_bind_dn_template, lines 120-131
validate_bind_dn_template(proposal) ==
    LET rv == IF proposal.type = "str" THEN <<proposal.value>> ELSE <<>>
    IN IF \E k \in 1..Len(rv) : rv[k] = Blank THEN DropBlank(rv) ELSE rv

\* search_filter: unset ("") or "({userattr}={username})"
SearchFilters == {Blank, <<"(", "{userattr}", "=", "{username}", ")">>}

\* lookup_dn_search_filter default
lookup_dn_search_filter == <<"(", "{login_attr}", "=", "{login}", ")">>

\* group_search_filter: the default, or unset
GroupSearchFilterDefault ==
    <<"(|(member=", "{userdn}", ")(uniqueMember=", "{userdn}",
      ")(memberUid=", "{uid}", "))">>
GroupAttributesDefault == <<"member", "uniqueMember", "memberUid">>

user_attribute == <<"uid">>
user_search_base == <<"ou=people">>
lookup_dn_user_dn_attribute == "cn"
lookup_dn_search_user == <<"cn=search">>

\* allowed_groups: the first k of the group DNs, k <= MaxGroups
GroupDN(k) == <<"cn=g", ToString(k)>>
GroupLists == {[k \in 1..n |-> GroupDN(k)] : n \in 0..MaxGroups}

\* allowed_users of the host framework: empty or one user
AllowedUsersSets == {{}, {<<"a">>}}


\* TlsStrategy (lines 12-20), and the default ports of _server_port_default
TlsStrategies == {"before_bind", "on_connect", "insecure"}
LdapsPort == 636
LdapPort == 389

\* server_port values an operator may configure
ConfiguredPorts == {LdapPort, LdapsPort, 3269}

\* server_port left unset, or set to one of these
PortSettings == {<<FALSE, LdapPort>>} \cup {<<TRUE, q>> : q \in ConfiguredPorts}

\* The configurations.  Options that the code reads only under another
\* option keep their default when that option is off.
Configs ==
    {c \in [valid_username_regex : {RegexDefault, RegexAny},
            proposal : Proposals,
            lookup_dn : BOOLEAN,
            use_lookup_dn_username : BOOLEAN,
            search_filter : SearchFilters,
            allowed_groups : GroupLists,
            group_search_filter : {Blank, GroupSearchFilterDefault},
            group_attributes : {<<>>, GroupAttributesDefault},
            auth_state_attributes : {<<>>, <<"mail">>},
            allowed_users : AllowedUsersSets,
            has_allow_all : BOOLEAN,
            allow_all : BOOLEAN,
            tls_strategy : {"before_bind"},
            has_server_port : {FALSE},
            server_port : {LdapPort}] :
        /\ (~c.has_allow_all => ~c.allow_all)
        /\ (~c.lookup_dn => c.use_lookup_dn_username)
        /\ (c.allowed_groups = <<>> =>
              /\ c.group_search_filter = GroupSearchFilterDefault
              /\ c.group_attributes = GroupAttributesDefault)
        /\ (c.group_search_filter = Blank =>
              c.group_attributes = GroupAttributesDefault)}

\* The configurations that differ in how the server is reached: every
\* tls_strategy, with server_port left unset or set, over one set-up with
\* templates and one with lookup
TransportConfigs ==
    {[valid_username_regex |-> RegexDefault,
      proposal |-> [type |-> "str", value |-> TemplateA],
      lookup_dn |-> l,
      use_lookup_dn_username |-> TRUE,
      search_filter |-> <<"(", "{userattr}", "=", "{username}", ")">>,
      allowed_groups |-> <<GroupDN(1)>>,
      group_search_filter |-> GroupSearchFilterDefault,
      group_attributes |-> GroupAttributesDefault,
      auth_state_attributes |-> <<"mail">>,
      allowed_users |-> {},
      has_allow_all |-> TRUE,
      allow_all |-> FALSE,
      tls_strategy |-> t,
      has_server_port |-> sp[1],
      server_port |-> sp[2]] :
        l \in BOOLEAN, t \in TlsStrategies, sp \in PortSettings}

\* --------------------------------------------------- directory answers
\* Values the directory may hold in the lookup_dn_user_dn_attribute
DirValues == {<<>>, <<"b">>, <<"(", ",">>}
FirstDN == <<"cn=x,ou=people">>
OtherDN == <<"cn=y,ou=people">>

\* The "attributes" of a response entry: missing (a search reference), or
\* the attribute as a list of values or as a single str
AttributeValues ==
    {[type |-> "missing", value |-> <<>>]}
    \cup {[type |-> "list", value |-> l] : l \in StrUpTo(DirValues, 2)}
    \cup {[type |-> "str", value |-> v] : v \in DirValues}

\* The first entry of a response, and the entries that may follow it
Entries == [dn : {FirstDN}, attributes : AttributeValues]

MoreEntries ==
    {[dn |-> OtherDN, attributes |-> [type |-> "str", value |-> <<"c">>]],
     [dn |-> OtherDN, attributes |-> [type |-> "list", value |-> <<>>]]}

Responses ==
    {<<>>} \cup {<<e>> \o rest : e \in Entries,
                               rest \in StrUpTo(MoreEntries, MaxEntries - 1)}

\* What ldap3.Connection(..., auto_bind=...) does in get_connection: it
\* returns a bound connection, or raises LDAPBindError (the server refused
\* the bind), or raises LDAPSocketOpenError (the server was not reached)
ConnectOutcomes == {"bound", "LDAPBindError", "LDAPSocketOpenError"}

\* get_connection, lines 401-411: ldap3.Server is made without
\* connect_timeout and ldap3.Connection without receive_timeout, so both keep
\* ldap3's default None: the socket waits without limit
connect_timeout == None
receive_timeout == None

\* ---------------------------------------------------------------- state
VARIABLES
    config,            \* the traits of the LDAPAuthenticator (read-only)
    pc,                \* where authenticate stands
    data,              \* the form data: username, password
    username,          \* local of authenticate
    resolved_dn,       \* local of authenticate
    bind_dn_template,  \* local of authenticate: the bind candidates
    dn_index,          \* position of the for loop over bind_dn_template
    userdn,            \* local of authenticate
    is_bound,          \* local of authenticate
    conn,              \* local of authenticate: index in connections, 0 unset
    ldap_groups,       \* local of authenticate
    group_index,       \* position of the for loop over allowed_groups
    result,            \* what authenticate gave its caller
    connections,       \* every ldap3.Connection made, with its state
    net,               \* every operation sent to the directory, in order
    allowed            \* the verdicts of the check_allowed calls, in order

vars == <<config, pc, data, username, resolved_dn, bind_dn_template, dn_index,
          userdn, is_bound, conn, ldap_groups, group_index, result,
          connections, net, allowed>>

locals == <<username, resolved_dn, bind_dn_template, dn_index, userdn,
            is_bound, conn, ldap_groups, group_index>>

Pending == [kind |-> "pending", name |-> <<>>, ldap_groups |-> <<>>,
            user_attributes |-> <<>>]
Rejected == [kind |-> "None", name |-> <<>>, ldap_groups |-> <<>>,
             user_attributes |-> <<>>]
Raised(exc) == [kind |-> exc, name |-> <<>>, ldap_groups |-> <<>>,
                user_attributes |-> <<>>]
Identity(name, groups, attrs) ==
    [kind |-> "identity", name |-> name, ldap_groups |-> groups,
     user_attributes |-> attrs]

Constructed ==
    /\ pc = "idle"
    /\ data = [username |-> <<>>, password |-> None]
    /\ username = <<>>
    /\ resolved_dn = None
    /\ bind_dn_template = <<>>
    /\ dn_index = 0
    /\ userdn = <<>>
    /\ is_bound = FALSE
    /\ conn = 0
    /\ ldap_groups = <<>>
    /\ group_index = 0
    /\ result = Pending
    /\ connections = <<>>
    /\ net = <<>>
    /\ allowed = <<>>

Init == config \in Configs /\ Constructed

InitTransport == config \in TransportConfigs /\ Constructed

\* self.bind_dn_template: the trait after its validator
self_bind_dn_template == validate_bind_dn_template(config.proposal)

\* ------------------------------------------------------------- actions
Return(r) ==
    /\ result' = r
    /\ pc' = "done"

\* The log entry of one directory operation: a bind (get_connection) or a
\* search, with what was sent and what came back
Op(op, purpose, dn, filter, outcome, n) ==
    [op |-> op, purpose |-> purpose, dn |-> dn, filter |-> filter,
     outcome |-> outcome, n |-> n, conn |-> 0]

\* The operation e, made on the connection at index c of connections
On(c, e) == [e EXCEPT !.conn = c]

\* The plaintext port for every strategy
server_port_default_PlainOnly(tls_strategy) == LdapPort

\* _server_port_default, lines 42-46
server_port_default(tls_strategy) ==
    IF tls_strategy = "on_connect" THEN LdapsPort ELSE LdapPort

\* self.server_port: the configured value, or the dynamic default
server_port ==
    IF config.has_server_port THEN config.server_port
    ELSE server_port_default(config.tls_strategy)

\* get_connection, lines 391-399
use_ssl(tls_strategy) ==
    IF tls_strategy = "on_connect" THEN TRUE
    ELSE IF tls_strategy = "before_bind" THEN FALSE
    ELSE FALSE

auto_bind(tls_strategy) ==
    IF tls_strategy = "on_connect" THEN "AUTO_BIND_NO_TLS"
    ELSE IF tls_strategy = "before_bind" THEN "AUTO_BIND_TLS_BEFORE_BIND"
    ELSE "AUTO_BIND_NO_TLS"

\* get_connection returns an ldap3.Connection that is open and bound; no
\* statement of the module calls unbind() on it
NewConnection(user) ==
    [user |-> user, state |-> "open",
     use_ssl |-> use_ssl(config.tls_strategy),
     auto_bind |-> auto_bind(config.tls_strategy),
     port |-> server_port]

\* The regex checked on the first character only
InvalidUsername_FirstCharOnly(u) ==
    ~(Len(u) >= 1 /\ (config.valid_username_regex = RegexDefault => u[1] \in LowerCase))

\* line 440: if not re.match(self.valid_username_regex, username)
InvalidUsername(u) == ~re_match(config.valid_username_regex, u)

\* The password compared with "" without strip()
BlankPassword_NoStrip(p) == p = None \/ p = <<>>

\* line 449: if password is None or password.strip() == ""
BlankPassword(p) == p = None \/ strip(p) = <<>>

\* line 454: if not self.lookup_dn and not self.bind_dn_template
NoCandidates == ~config.lookup_dn /\ self_bind_dn_template = <<>>

\* authenticate, lines 436-461: the checks made before any directory call
Authenticate(u, p) ==
    /\ pc = "idle"
    /\ data' = [username |-> u, password |-> p]
    /\ username' = u
    /\ UNCHANGED <<config, resolved_dn, userdn, is_bound, conn, ldap_groups,
                   group_index, connections, net, allowed>>
    /\ IF InvalidUsername(u) \/ BlankPassword(p) \/ NoCandidates
       THEN Return(Rejected) /\ UNCHANGED <<bind_dn_template, dn_index>>
       ELSE /\ bind_dn_template' = self_bind_dn_template
            /\ dn_index' = 1
            /\ pc' = IF config.lookup_dn THEN "resolve" ELSE "bind"
            /\ UNCHANGED result

\* A lookup that finds several entries taken for a failed one, as the
\* search_filter check does
resolve_username_RejectsSeveral(bind_ok, response) ==
    IF ~bind_ok THEN <<None, None>>
    ELSE IF Len(response) # 1 \/ response[1].attributes.type = "missing"
    THEN <<None, None>>
    ELSE LET user_dn == response[1].attributes.value
         IN IF response[1].attributes.type = "list"
            THEN IF Len(user_dn) = 0 THEN <<None, None>>
                 ELSE <<user_dn[1], response[1].dn>>
            ELSE <<user_dn, response[1].dn>>

\* resolve_username, lines 338-383: the pair it returns, given what
\* conn.bind() and conn.search() gave
resolve_username(bind_ok, response) ==
    IF ~bind_ok THEN <<None, None>>
    ELSE IF Len(response) = 0 \/ response[1].attributes.type = "missing"
    THEN <<None, None>>
    ELSE LET user_dn == response[1].attributes.value
         IN IF response[1].attributes.type = "list"
            THEN IF Len(user_dn) = 0 THEN <<None, None>>
                 ELSE <<user_dn[1], response[1].dn>>
            ELSE <<user_dn, response[1].dn>>

\* Only None taken for a failed lookup, the empty str let through
NotUsername_NoneOnly(name) == name = None

\* line 463: if not username
NotUsername(name) == name = None \/ name = <<>>

LookupFilter(login) ==
    format(lookup_dn_search_filter,
           ("{login_attr}" :> user_attribute)
           @@ ("{login}" :> escape_filter_chars(login)))

\* The resolved DN added to the templates instead of standing in for them
LookupCandidates_Appended(templates, dn) == Append(templates, dn)

\* lines 465-466: if not bind_dn_template: bind_dn_template = [resolved_dn]
LookupCandidates(templates, dn) == IF templates = <<>> THEN <<dn>> ELSE templates

\* authenticate, lines 461-466, with the call of resolve_username (329-383)
ResolveUsername(outcome, bind_ok, response) ==
    /\ pc = "resolve"
    /\ UNCHANGED <<config, data, userdn, is_bound, conn, ldap_groups,
                   group_index, dn_index, allowed>>
    /\ LET bind_op == Op("bind", "lookup", lookup_dn_search_user, <<>>, outcome, 0)
           search_op == Op("search", "lookup", user_search_base,
                           LookupFilter(username), "ok", Len(response))
           pair == resolve_username(bind_ok, response)
       IN IF outcome # "bound"
          THEN \* get_connection raised; nothing in resolve_username or
               \* authenticate catches it
               /\ bind_ok /\ response = <<>>
               /\ Return(Raised(outcome))
               /\ net' = Append(net, bind_op)
               /\ UNCHANGED <<username, resolved_dn, bind_dn_template, connections>>
          ELSE /\ connections' = Append(connections, NewConnection(lookup_dn_search_user))
               /\ (~bind_ok => response = <<>>)
               /\ LET made == Len(connections) + 1
                  IN net' = IF bind_ok
                            THEN net \o <<On(made, bind_op), On(made, search_op)>>
                            ELSE Append(net, On(made, bind_op))
               /\ username' = pair[1]
               /\ resolved_dn' = pair[2]
               /\ IF NotUsername(pair[1])
                  THEN Return(Rejected) /\ UNCHANGED bind_dn_template
                  ELSE /\ bind_dn_template' = LookupCandidates(bind_dn_template, pair[2])
                       /\ pc' = "bind"
                       /\ UNCHANGED result

\* is_bound left True when get_connection raised LDAPBindError
BindResult_ErrorIsBound(outcome) == outcome \in {"bound", "LDAPBindError"}

\* lines 473-482: is_bound after get_connection for one candidate
BindResult(outcome) == outcome = "bound"

\* The loop without the "if not is_bound: return None" that follows it
AfterBind_NoReject(bound, index, count) ==
    IF bound THEN "break"
    ELSE IF index < count THEN "continue"
    ELSE "break"

\* lines 485-490: what follows one pass of the loop: stop at the first
\* bound candidate, go on to the next one, or give up after the last
AfterBind(bound, index, count) ==
    IF bound THEN "break"
    ELSE IF index < count THEN "continue"
    ELSE "invalid password"

\* The first connection made taken for the user's: in lookup mode that is
\* the connection of the lookup_dn_search_user
UserConnection_First(made) == 1

\* line 474: conn = self.get_connection(userdn, password): the connection
\* just made, which comes after those made before
UserConnection(made) == Len(made) + 1

\* authenticate, lines 468-490: one pass of the loop over bind_dn_template
BindCandidate(outcome) ==
    /\ pc = "bind"
    /\ UNCHANGED <<config, data, username, resolved_dn, bind_dn_template,
                   ldap_groups, allowed>>
    /\ LET dn == bind_dn_template[dn_index]
           dn_formatted == format(dn, "{username}" :> escape_rdn(username))
           bound == BindResult(outcome)
           next == AfterBind(bound, dn_index, Len(bind_dn_template))
       IN /\ userdn' = dn_formatted
          /\ net' = Append(net, On(IF outcome = "bound"
                                   THEN UserConnection(connections) ELSE 0,
                                   Op("bind", "user", dn_formatted, <<>>, outcome, 0)))
          /\ IF outcome = "LDAPSocketOpenError"
             THEN \* not an LDAPBindError: the except clause does not catch it
                  /\ Return(Raised(outcome))
                  /\ UNCHANGED <<is_bound, conn, connections, dn_index, group_index>>
             ELSE /\ is_bound' = bound
                  /\ IF outcome = "bound"
                     THEN /\ connections' = Append(connections, NewConnection(dn_formatted))
                          /\ conn' = UserConnection(connections)
                     ELSE UNCHANGED <<conn, connections>>
                  /\ CASE next = "break" ->
                            /\ pc' = "filter"
                            /\ UNCHANGED <<result, dn_index, group_index>>
                       [] next = "continue" ->
                            /\ dn_index' = dn_index + 1
                            /\ UNCHANGED <<pc, result, group_index>>
                       [] OTHER ->
                            /\ Return(Rejected)
                            /\ UNCHANGED <<dn_index, group_index>>

\* The search_filter check without its duplicate-users branch
OneUserFound_NoDuplicateCheck(n_users) == ~(n_users = 0)

\* lines 502-513: exactly one entry must match the search_filter
OneUserFound(n_users) == ~(n_users = 0) /\ ~(n_users > 1)

SearchFilter(name) ==
    format(config.search_filter,
           ("{userattr}" :> user_attribute)
           @@ ("{username}" :> escape_filter_chars(name)))

\* authenticate, lines 492-513
SearchFilterCheck(n_users) ==
    /\ pc = "filter"
    /\ UNCHANGED <<config, data, username, resolved_dn, bind_dn_template,
                   dn_index, userdn, is_bound, conn, ldap_groups, connections,
                   allowed>>
    /\ IF config.search_filter = Blank
       THEN /\ n_users = 0
            /\ pc' = "groups"
            /\ group_index' = 1
            /\ UNCHANGED <<result, net>>
       ELSE /\ net' = Append(net, On(conn, Op("search", "filter", user_search_base,
                                             SearchFilter(username), "ok",
                                             n_users)))
            /\ IF OneUserFound(n_users)
               THEN pc' = "groups" /\ group_index' = 1 /\ UNCHANGED result
               ELSE Return(Rejected) /\ UNCHANGED group_index

\* The group filter built from the raw username
GroupFilter_RawUid(dn, uid) ==
    format(config.group_search_filter,
           ("{userdn}" :> escape_filter_chars(dn)) @@ ("{uid}" :> uid))

GroupFilter(dn, uid) ==
    format(config.group_search_filter,
           ("{userdn}" :> escape_filter_chars(dn))
           @@ ("{uid}" :> escape_filter_chars(uid)))

\* The check made only when both settings are missing
GroupConfigMissing_BothOnly ==
    config.group_search_filter = Blank /\ config.group_attributes = <<>>

\* line 517: if not self.group_search_filter or not self.group_attributes
GroupConfigMissing ==
    config.group_search_filter = Blank \/ config.group_attributes = <<>>

\* The probe loop without its break
AfterProbe_NoBreak(found, index, count) ==
    IF index < count THEN "continue" ELSE "exhausted"

\* lines 533-539: what follows one membership probe
AfterProbe(found, index, count) ==
    IF found THEN "break"
    ELSE IF index < count THEN "continue"
    ELSE "exhausted"

\* authenticate, lines 515-539: the configuration check and one pass of the
\* loop over allowed_groups
GroupCheck(found) ==
    /\ pc = "groups"
    /\ UNCHANGED <<config, data, username, resolved_dn, bind_dn_template,
                   dn_index, userdn, is_bound, conn, connections, allowed>>
    /\ IF config.allowed_groups = <<>>
       THEN /\ ~found
            /\ pc' = "attrs"
            /\ UNCHANGED <<result, net, ldap_groups, group_index>>
       ELSE IF GroupConfigMissing
       THEN /\ ~found
            /\ Return(Rejected)
            /\ UNCHANGED <<net, ldap_groups, group_index>>
       ELSE LET group == config.allowed_groups[group_index]
                next == AfterProbe(found, group_index, Len(config.allowed_groups))
            IN /\ net' = Append(net, On(conn, Op("search", "group", group,
                                                GroupFilter(userdn, username),
                                                "ok", IF found THEN 1 ELSE 0)))
               /\ ldap_groups' = IF found THEN Append(ldap_groups, group)
                                 ELSE ldap_groups
               /\ group_index' = IF next = "continue" THEN group_index + 1
                                 ELSE group_index
               /\ pc' = IF next = "continue" THEN "groups" ELSE "attrs"
               /\ UNCHANGED result

\* The name resolved by the lookup kept whatever use_lookup_dn_username says
ReturnedName_Resolved(use_lookup, typed, current) == current

\* lines 541-542: if not self.use_lookup_dn_username:
\*                    username = data["username"]
ReturnedName(use_lookup, typed, current) ==
    IF ~use_lookup THEN typed ELSE current

\* authenticate, lines 541-550, with get_user_attributes (414-425)
UserAttributes(found) ==
    /\ pc = "attrs"
    /\ UNCHANGED <<config, data, resolved_dn, bind_dn_template, dn_index,
                   userdn, is_bound, conn, ldap_groups, group_index,
                   connections, allowed>>
    /\ LET name == ReturnedName(config.use_lookup_dn_username, data.username,
                                username)
       IN /\ username' = name
          /\ IF config.auth_state_attributes = <<>>
             THEN /\ ~found
                  /\ UNCHANGED net
                  /\ Return(Identity(name, ldap_groups, <<>>))
             ELSE /\ net' = Append(net, On(conn, Op("search", "attrs", userdn,
                                                   <<"(objectClass=*)">>, "ok",
                                                   IF found THEN 1 ELSE 0)))
                  /\ Return(Identity(name, ldap_groups,
                                     IF found THEN config.auth_state_attributes
                                     ELSE <<>>))

\* The next statement of authenticate waits for the directory: the
\* get_connection of resolve_username (334) or of the bind loop (474), or a
\* conn.search (493, 524, 417)
AwaitsDirectory ==
    \/ pc \in {"resolve", "bind"}
    \/ pc = "filter" /\ config.search_filter # Blank
    \/ pc = "groups" /\ config.allowed_groups # <<>> /\ ~GroupConfigMissing
    \/ pc = "attrs" /\ config.auth_state_attributes # <<>>

\* The directory server accepts the traffic and never answers: with no
\* timeout on the socket the call made by authenticate does not return
Stall ==
    /\ connect_timeout = None \/ receive_timeout = None
    /\ AwaitsDirectory
    /\ pc' = "blocked"
    /\ UNCHANGED <<config, data, result, connections, net, allowed>>
    /\ UNCHANGED locals

\* Authenticator.check_allowed of JupyterHub >= 5, called at line 561
super_check_allowed(name) == config.allow_all \/ name \in config.allowed_users

InGroups(groups) ==
    \E k \in 1..Len(config.allowed_groups) :
        \E m \in 1..Len(groups) : config.allowed_groups[k] = groups[m]

\* check_allowed without its allowed_groups block
check_allowed_NoGroups(name, auth_model) ==
    IF ~config.has_allow_all
    THEN \/ (config.allowed_users = {} /\ config.allowed_groups = <<>>)
         \/ (config.allowed_users # {} /\ name \in config.allowed_users)
    ELSE super_check_allowed(name)

\* check_allowed using up the ldap_groups of the auth state: only the first
\* call sees them
check_allowed_ConsumesGroups(name, auth_model) ==
    IF (IF ~config.has_allow_all
        THEN \/ (config.allowed_users = {} /\ config.allowed_groups = <<>>)
             \/ (config.allowed_users # {} /\ name \in config.allowed_users)
        ELSE super_check_allowed(name))
    THEN TRUE
    ELSE /\ allowed = <<>>
         /\ config.allowed_groups # <<>>
         /\ InGroups(auth_model.ldap_groups)

\* check_allowed, lines 552-579
check_allowed(name, auth_model) ==
    IF (IF ~config.has_allow_all
        THEN \/ (config.allowed_users = {} /\ config.allowed_groups = <<>>)
             \/ (config.allowed_users # {} /\ name \in config.allowed_users)
        ELSE super_check_allowed(name))
    THEN TRUE
    ELSE IF config.allowed_groups # <<>> /\ InGroups(auth_model.ldap_groups)
    THEN TRUE
    ELSE FALSE

\* The host calls check_allowed with the identity authenticate returned
CheckAllowed ==
    /\ pc = "done"
    /\ result.kind = "identity"
    /\ Len(allowed) < MaxCalls
    /\ allowed' = Append(allowed, check_allowed(result.name, result))
    /\ UNCHANGED <<config, pc, data, result, connections, net>>
    /\ UNCHANGED locals

Next ==
    \/ \E u \in Usernames, p \in Passwords : Authenticate(u, p)
    \/ \E outcome \in ConnectOutcomes, bind_ok \in BOOLEAN, response \in Responses :
          ResolveUsername(outcome, bind_ok, response)
    \/ \E outcome \in ConnectOutcomes : BindCandidate(outcome)
    \/ \E n_users \in 0..MaxEntries : SearchFilterCheck(n_users)
    \/ \E found \in BOOLEAN : GroupCheck(found)
    \/ \E found \in BOOLEAN : UserAttributes(found)
    \/ CheckAllowed
    \/ Stall

Spec == Init /\ [][Next]_vars

SpecTransport == InitTransport /\ [][Next]_vars

\* -------------------------------------------------- reading the log
IsUserBind(e) == e.op = "bind" /\ e.purpose = "user"
IsFilterSearch(e) == e.op = "search" /\ e.purpose = "filter"
IsGroupProbe(e) == e.op = "search" /\ e.purpose = "group"
IsSearch(e) == e.op = "search"

UserBinds(log) == SelectSeq(log, IsUserBind)
FilterSearches(log) == SelectSeq(log, IsFilterSearch)
GroupProbes(log) == SelectSeq(log, IsGroupProbe)

Returned == pc = "done"

\* ------------------------------------------------------------- claims

\* C1: a username that does not match valid_username_regex is rejected and
\* no bind or search is sent to the directory, whatever the password and
\* the configuration.
C1_InvalidUsernameRejected ==
    (pc # "idle" /\ ~re_match(config.valid_username_regex, data.username)) =>
        /\ Returned /\ result = Rejected
        /\ net = <<>> /\ connections = <<>>

C1_Witness ==
    /\ Returned /\ result = Rejected
    /\ data.username = <<"a", "(">> /\ data.password = <<"p">>
    /\ config.valid_username_regex = RegexDefault
    /\ config.lookup_dn

\* C2: a password that is missing, empty or whitespace-only is rejected and
\* no bind or search is sent to the directory, the lookup connection of the
\* technical account included.
IsBlank(p) == p = None \/ \A k \in 1..Len(p) : p[k] = " "

C2_BlankPasswordRejected ==
    (pc # "idle" /\ IsBlank(data.password)) =>
        /\ Returned /\ result = Rejected
        /\ net = <<>> /\ connections = <<>>

C2_Witness ==
    /\ Returned /\ result = Rejected
    /\ data.username = <<"a">> /\ data.password = <<" ">>
    /\ config.lookup_dn

\* C3: the bind loop tries the candidates of bind_dn_template in order, the
\* k-th attempt being made on the k-th candidate and only after every
\* earlier attempt failed; a bind error on a candidate that is not the last
\* leaves the loop running; once every candidate failed the attempt is
\* rejected.
C3_AttemptInOrder ==
    LET before == UserBinds(net)
        after == UserBinds(net')
        k == Len(before) + 1
    IN Len(after) = k =>
          /\ k <= Len(bind_dn_template)
          /\ after[k].dn = format(bind_dn_template[k],
                                  "{username}" :> escape_rdn(username))
          /\ \A m \in 1..Len(before) : before[m].outcome = "LDAPBindError"

C3_LoopOutcome ==
    LET binds == UserBinds(net)
        n == Len(binds)
    IN /\ n <= Len(bind_dn_template)
       /\ (n >= 1 /\ binds[n].outcome = "LDAPBindError") =>
             IF n < Len(bind_dn_template)
             THEN pc = "bind" /\ dn_index = n + 1
             ELSE Returned /\ result = Rejected
       /\ (n >= 1 /\ binds[n].outcome = "bound") => pc # "bind"

C4_IdentityOrRejection ==
    Returned => result.kind \in {"identity", "None"}

\* C5: an identity is returned only if a bind with the user's password
\* succeeded during the attempt.
C5_IdentityOnlyIfBound ==
    result.kind = "identity" =>
        \E k \in 1..Len(net) : IsUserBind(net[k]) /\ net[k].outcome = "bound"

C5_Witness ==
    /\ result.kind = "identity"
    /\ config.lookup_dn
    /\ Len(UserBinds(net)) = 1

\* C6: with search_filter configured, an identity is returned only if the
\* post-bind search gave exactly one entry; with zero or several entries the
\* attempt is rejected and check_allowed never allows the user, whatever
\* allowed_users, allowed_groups and allow_all are.
C6_SearchFilterExactlyOne ==
    LET searches == FilterSearches(net)
    IN config.search_filter # Blank =>
          /\ (result.kind = "identity" \/ allowed # <<>>) =>
                (Len(searches) = 1 /\ searches[1].n = 1)
          /\ (Len(searches) >= 1 /\ searches[1].n # 1) =>
                (Returned /\ result = Rejected /\ allowed = <<>>)

C6_Witness ==
    /\ Returned /\ result = Rejected /\ is_bound
    /\ Len(FilterSearches(net)) = 1
    /\ FilterSearches(net)[1].n = 2
    /\ config.allow_all

\* C7: every connection opened during an attempt is released by the time
\* authenticate has returned.
C7_ConnectionsReleased ==
    Returned => \A k \in 1..Len(connections) : connections[k].state # "open"

\* C8: the username is escaped wherever it reaches the directory: no filter
\* sent carries a filter-special character that its template does not have,
\* every "," of a username inside a bind DN follows a backslash, and the
\* post-bind search filter and the group filters of one attempt carry the
\* same escaped username.
FilterSpecial == {"(", ")", "*"}

RECURSIVE CountIn(_, _)
CountIn(seq, S) ==
    IF seq = <<>> THEN 0
    ELSE (IF Head(seq) \in S THEN 1 ELSE 0) + CountIn(Tail(seq), S)

TemplateOf(e) ==
    CASE e.purpose = "lookup" -> lookup_dn_search_filter
      [] e.purpose = "filter" -> config.search_filter
      [] e.purpose = "group"  -> config.group_search_filter
      [] OTHER                -> <<>>

IndexOf(seq, token) == CHOOSE k \in 1..Len(seq) : seq[k] = token

\* the username as carried by a search filter and by a group filter
UsernameInSearchFilter(e) == SubSeq(e.filter, 4, Len(e.filter) - 1)
UidInGroupFilter(e) ==
    SubSeq(e.filter, IndexOf(e.filter, ")(memberUid=") + 1, Len(e.filter) - 1)

C8_UsernameEscaped ==
    /\ \A k \in 1..Len(net) :
          IsSearch(net[k]) =>
             CountIn(net[k].filter, FilterSpecial)
                = CountIn(TemplateOf(net[k]), FilterSpecial)
    /\ \A k \in 1..Len(net) :
          IsUserBind(net[k]) =>
             \A m \in 1..Len(net[k].dn) :
                net[k].dn[m] = "," => (m > 1 /\ net[k].dn[m - 1] = "\\")
    /\ \A k, m \in 1..Len(net) :
          (IsFilterSearch(net[k]) /\ IsGroupProbe(net[m])) =>
             UsernameInSearchFilter(net[k]) = UidInGroupFilter(net[m])

C8_Witness ==
    \E k, m \in 1..Len(net) :
        /\ IsFilterSearch(net[k]) /\ IsGroupProbe(net[m])
        /\ UsernameInSearchFilter(net[k]) = <<"\\", "2", "8", ",">>
        /\ \E b \in 1..Len(net) :
              IsUserBind(net[b]) /\ net[b].dn = <<"uid=", "(", "\\", ",", ",ou=a">>
        /\ \E b \in 1..Len(net) :
              /\ IsSearch(net[b]) /\ net[b].purpose = "lookup"
              /\ net[b].filter = <<"(", "uid", "=", "\\", "2", "8", ")">>

\* C9: the groups of allowed_groups are probed in listed order and probing
\* stops at the first match: ldap_groups is empty when no probe matched and
\* holds exactly the first matching group otherwise, and no probe follows a
\* match.
C9_FirstMatchingGroup ==
    LET probes == GroupProbes(net)
        n == Len(probes)
        matched == n >= 1 /\ probes[n].n = 1
        recorded == IF matched THEN <<probes[n].dn>> ELSE <<>>
    IN /\ n <= Len(config.allowed_groups)
       /\ \A k \in 1..n : probes[k].dn = config.allowed_groups[k]
       /\ \A k \in 1..(n - 1) : probes[k].n = 0
       /\ ldap_groups = recorded
       /\ result.kind = "identity" =>
             /\ result.ldap_groups = recorded
             /\ (config.allowed_groups # <<>> /\ ~matched) =>
                   n = Len(config.allowed_groups)

C9_Witness ==
    /\ result.kind = "identity"
    /\ Len(GroupProbes(net)) = 2
    /\ GroupProbes(net)[1].n = 0
    /\ GroupProbes(net)[2].n = 1
    /\ result.ldap_groups = <<GroupDN(2)>>

\* C10: check_allowed returns true if allow_all or allowed_users allows the
\* user or if the ldap_groups of the auth state meet allowed_groups, and
\* false in every other case where an allow rule is configured.
Range(seq) == {seq[k] : k \in 1..Len(seq)}

C10_CheckAllowed ==
    LET rule == \/ config.allow_all
                \/ config.allowed_users # {}
                \/ config.allowed_groups # <<>>
        allows == \/ config.allow_all
                  \/ result.name \in config.allowed_users
                  \/ Range(result.ldap_groups) \cap Range(config.allowed_groups) # {}
    IN allowed # <<>> =>
          /\ allows => allowed[1]
          /\ (rule /\ ~allows) => ~allowed[1]

C10_Witness ==
    /\ allowed = <<FALSE>>
    /\ result.kind = "identity" /\ result.ldap_groups = <<>>
    /\ config.allowed_groups # <<>>
    /\ config.allowed_users # {} /\ result.name \notin config.allowed_users

\* C11: with allowed_groups empty (or None) and neither allowed_users nor
\* allow_all configured, check_allowed allows every identity authenticate
\* returned, and authenticate sends no group-membership probe.
C11_NoGroupsAllowsAll ==
    (config.allowed_groups = <<>> /\ config.allowed_users = {} /\ ~config.allow_all) =>
        /\ GroupProbes(net) = <<>>
        /\ \A k \in 1..Len(allowed) : allowed[k]

\* C12: with allowed_groups configured and group_search_filter or
\* group_attributes empty, authenticate never returns an identity and sends
\* no group-membership probe; a user whose bind succeeded is rejected.
C12_GroupConfigFailsClosed ==
    (/\ config.allowed_groups # <<>>
     /\ (config.group_search_filter = <<>> \/ config.group_attributes = <<>>)) =>
        /\ result.kind # "identity"
        /\ GroupProbes(net) = <<>>
        /\ allowed = <<>>
        /\ (Returned /\ is_bound) => result = Rejected

C12_Witness ==
    /\ config.allowed_groups # <<>>
    /\ config.group_attributes = <<>>
    /\ config.search_filter # Blank
    /\ Returned /\ result = Rejected /\ is_bound
    /\ Len(FilterSearches(net)) = 1 /\ FilterSearches(net)[1].n = 1

\* C13: check_allowed is a function of the username, the auth state and the
\* configuration: a call sends nothing to the directory and changes nothing
\* but the verdict handed back, and repeated calls for one identity give the
\* same verdict.
C13_CallIsPure ==
    allowed' # allowed =>
        /\ UNCHANGED <<config, pc, data, result, connections, net>>
        /\ UNCHANGED locals

C13_SameVerdict == \A k \in 1..Len(allowed) : allowed[k] = allowed[1]

LookupSucceeded ==
    config.lookup_dn /\ (pc \in {"bind", "filter", "groups", "attrs"} \/ UserBinds(net) # <<>>)

FromDirectory(dn) ==
    \E v \in DirValues \ {<<>>} : dn = <<"uid=">> \o escape_rdn(v) \o <<",ou=a">>

C14_ResolvedDnSoleCandidate ==
    LET binds == UserBinds(net)
    IN LookupSucceeded =>
          /\ Len(bind_dn_template) = 1
          /\ Len(binds) = (IF pc = "bind" THEN 0 ELSE 1)
          /\ \A k \in 1..Len(binds) :
                /\ binds[k].dn = FirstDN \/ FromDirectory(binds[k].dn)
                /\ config.proposal.value = Blank => binds[k].dn = FirstDN

C14_Witness ==
    /\ config.lookup_dn /\ ~config.use_lookup_dn_username
    /\ config.proposal.value = Blank
    /\ result.kind = "identity" /\ result.name = <<"a">>
    /\ Len(UserBinds(net)) = 1
    /\ UserBinds(net)[1].dn = FirstDN /\ UserBinds(net)[1].outcome = "bound"

\* C15: in lookup mode, a lookup that yields no entry, or an entry without
\* a value in the configured attribute, ends authenticate with a rejection:
\* no bind with the user's password and no search after the lookup's own
\* is sent.
IsLookupSearch(e) == e.op = "search" /\ e.purpose = "lookup"

LookupRan == config.lookup_dn /\ \E k \in 1..Len(net) : IsLookupSearch(net[k])

NoValue(name) == name \in {None, <<>>}

C15_LookupFailureRejects ==
    (LookupRan /\ NoValue(username)) =>
        /\ Returned /\ result = Rejected
        /\ UserBinds(net) = <<>>
        /\ \A k \in 1..Len(net) : IsSearch(net[k]) => IsLookupSearch(net[k])
        /\ ~is_bound /\ conn = 0

C15_Witness ==
    /\ LookupRan /\ username = <<>> /\ resolved_dn = FirstDN
    /\ net[Len(net)].n = 2
    /\ Returned /\ result = Rejected

C15_WitnessNoEntry ==
    /\ LookupRan /\ username = None
    /\ net[Len(net)].n = 0
    /\ Returned /\ result = Rejected

\* C16: the name of a returned identity.  In lookup mode the lookup leaves
\* in username the value it took from the directory, nothing changes it up
\* to the return, and the identity carries it when use_lookup_dn_username
\* is set and the name the user typed when it is not.  Without lookup mode
\* the identity carries the name the user typed.
C16_UsernameFromLookup ==
    LookupSucceeded /\ pc # "done" => username \in DirValues \ {<<>>}

C16_NameStep ==
    /\ pc # "idle" => data' = data
    /\ pc \in {"bind", "filter", "groups"} => username' = username
    /\ (result.kind # "identity" /\ result'.kind = "identity") =>
          result'.name = (IF config.lookup_dn /\ config.use_lookup_dn_username
                          THEN username ELSE data.username)

C16_ReturnedName == [][C16_NameStep]_vars /\ []C16_UsernameFromLookup

C16_Witness ==
    /\ config.lookup_dn /\ config.use_lookup_dn_username
    /\ result.kind = "identity"
    /\ result.name = <<"b">> /\ data.username = <<"a">>

C16_WitnessTyped ==
    /\ config.lookup_dn /\ ~config.use_lookup_dn_username
    /\ result.kind = "identity"
    /\ result.name = <<"a">> /\ FromDirectory(UserBinds(net)[1].dn)

\* C17: DN templates configured as a list are the bind candidates, in list
\* order and without the blank entries: once authenticate has passed its
\* checks on the request, the user binds sent are the templates filled
\* with the username, one after the other, and a call that returned sent
\* at least the first of them.
C17_ListTemplatesUsed ==
    LET candidates == DropBlank(config.proposal.value)
        binds == UserBinds(net)
    IN (/\ config.proposal.type = "list"
        /\ ~config.lookup_dn
        /\ pc # "idle"
        /\ ~InvalidUsername(data.username)
        /\ ~BlankPassword(data.password)) =>
           /\ Len(binds) <= Len(candidates)
           /\ \A k \in 1..Len(binds) :
                 binds[k].dn = format(candidates[k],
                                      "{username}" :> escape_rdn(data.username))
           /\ Returned => Len(binds) >= 1

\* C18: a directory server that never answers cannot hold authenticate
\* for ever: whenever a call has started and has not returned, a further
\* step of it is possible.
C18_CallCanProceed ==
    (pc # "idle" /\ ~Returned) => ENABLED Next

\* C19: every connection is made with parameters fixed by tls_strategy:
\* on_connect gives use_ssl without a TLS upgrade before the bind,
\* before_bind gives the upgrade without use_ssl, insecure gives neither;
\* the port is the configured server_port when there is one, else 636 for
\* on_connect and 389 for the two other strategies.
DirectTls(c) == c.use_ssl

TlsBeforeBind(c) == c.auto_bind = "AUTO_BIND_TLS_BEFORE_BIND"

C19_ConnectionParameters ==
    \A k \in 1..Len(connections) :
        LET c == connections[k]
            t == config.tls_strategy
        IN /\ t = "on_connect" => DirectTls(c) /\ ~TlsBeforeBind(c)
           /\ t = "before_bind" => ~DirectTls(c) /\ TlsBeforeBind(c)
           /\ t = "insecure" => ~DirectTls(c) /\ ~TlsBeforeBind(c)
           /\ (~config.has_server_port /\ t = "on_connect") => c.port = 636
           /\ (~config.has_server_port /\ t # "on_connect") => c.port = 389
           /\ config.has_server_port => c.port = config.server_port

C19_Witness ==
    /\ config.tls_strategy = "on_connect" /\ ~config.has_server_port
    /\ config.lookup_dn
    /\ Len(connections) = 2
    /\ connections[2].port = 636 /\ connections[2].use_ssl
    /\ result.kind = "identity"

C19_WitnessOverride ==
    /\ config.tls_strategy = "before_bind" /\ config.has_server_port
    /\ Len(connections) = 1
    /\ connections[1].port = 3269 /\ connections[1].auto_bind = "AUTO_BIND_TLS_BEFORE_BIND"

\* C20: with lookup mode off and no DN template configured, authenticate
\* returns a rejection and nothing has been sent to the directory: no
\* connection, no bind, no search.
C20_NoCandidatesNoNetwork ==
    (~config.lookup_dn /\ config.proposal.value = Blank /\ pc # "idle") =>
        /\ Returned /\ result = Rejected
        /\ net = <<>>
        /\ connections = <<>>

C20_Witness ==
    /\ ~config.lookup_dn /\ config.proposal.value = Blank
    /\ data.username = <<"a">> /\ data.password = <<"p">>
    /\ Returned /\ result = Rejected
    /\ net = <<>> /\ connections = <<>>

\* C21: every search made after the bind loop (the search_filter check, a
\* group probe, the attribute fetch) runs on the connection made by the
\* user bind that succeeded, which is the last user bind sent: the
\* connection is bound as that bind's DN, a group probe carries that DN in
\* its filter, and the attribute fetch has it as search base.
IsPostBindSearch(e) == IsSearch(e) /\ e.purpose \in {"filter", "group", "attrs"}

LastUserBind(k) ==
    net[CHOOSE b \in 1..k : IsUserBind(net[b])
                            /\ \A j \in (b + 1)..k : ~IsUserBind(net[j])]

C21_PostBindOnBoundCandidate ==
    \A k \in 1..Len(net) :
        IsPostBindSearch(net[k]) =>
            /\ \E b \in 1..k : IsUserBind(net[b])
            /\ LET bind == LastUserBind(k)
                   e == net[k]
               IN /\ bind.outcome = "bound"
                  /\ e.conn = bind.conn
                  /\ e.conn \in 1..Len(connections)
                  /\ connections[e.conn].user = bind.dn
                  /\ e.purpose = "group" =>
                        \E uid \in Usernames \cup DirValues :
                            e.filter = format(config.group_search_filter,
                                ("{userdn}" :> escape_filter_chars(bind.dn))
                                @@ ("{uid}" :> escape_filter_chars(uid)))
                  /\ e.purpose = "attrs" => e.dn = bind.dn

C21_Witness ==
    /\ config.lookup_dn
    /\ result.kind = "identity"
    /\ Len(connections) = 2
    /\ \E i, j, k \in 1..Len(net) :
          /\ i < j /\ j < k
          /\ net[i].purpose = "filter" /\ net[i].conn = 2
          /\ net[j].purpose = "group" /\ net[j].conn = 2
          /\ net[k].purpose = "attrs" /\ net[k].conn = 2
    /\ connections[2].user = userdn /\ connections[1].user = lookup_dn_search_user

\* C22: a lookup that returns several entries is not a rejection.
\* Where authenticate calls it, resolve_username gives for a response of
\* several entries what it gives for the first entry alone, and in every
\* run with such a lookup the DN kept and the DNs bound come from the first
\* entry, never from a later one; a rejection after a usable first entry
\* comes from a later step.
SeveralFound ==
    LookupRan /\ \E k \in 1..Len(net) : IsLookupSearch(net[k]) /\ net[k].n > 1

FromLaterEntry(dn) ==
    \/ dn = OtherDN
    \/ \E e \in MoreEntries :
          /\ e.attributes.type = "str"
          /\ dn = format(TemplateA,
                         "{username}" :> escape_rdn(e.attributes.value))

C22_FirstEntryOnly ==
    /\ pc = "resolve" =>
          \A r \in Responses :
              Len(r) > 1 => resolve_username(TRUE, r) = resolve_username(TRUE, <<r[1]>>)
    /\ SeveralFound =>
          /\ resolved_dn \in {None, FirstDN}
          /\ \A k \in 1..Len(net) : IsUserBind(net[k]) => ~FromLaterEntry(net[k].dn)
          /\ (resolved_dn = FirstDN /\ result = Rejected /\ UserBinds(net) = <<>>) =>
                username = <<>>

C22_Witness ==
    /\ SeveralFound
    /\ resolved_dn = FirstDN
    /\ result.kind = "identity" /\ result.name = <<"b">>
    /\ UserBinds(net)[1].outcome = "bound"

====
